---- MODULE Spec2Model ----
(***************************************************************************)
(* CDllHelper (lib/kodi/tools/DllHelper.h): one instance owning the        *)
(* native library handle m_dll, with LoadDll, RegisterSymbol and the       *)
(* destructor, together with the collaborators the three consume: the      *)
(* virtual file system (FileExists, StatFile, CopyFile, GetFileName,       *)
(* TranslateSpecialProtocol), the log and the native loader (dlopen,       *)
(* dlsym, dlclose, dlerror).                                               *)
(***************************************************************************)
EXTENDS Integers, Sequences, FiniteSets, TLC

VARIABLES
    android,      \* TARGET_ANDROID is defined for this build
    fs,           \* the file system: path -> [exists, size, mtime]
    m_dll,        \* CDllHelper::m_dll
    functionPtr,  \* the caller's slot: [assigned, val]
    opened,       \* the non-null handles dlopen has returned, in order
    closed,       \* the handles passed to dlclose, in order
    destroyed,    \* ~CDllHelper has run
    last,         \* what the most recent call did (observation only)
    log           \* the lines the most recent call passed to kodi::Log

vars == <<android, fs, m_dll, functionPtr, opened, closed, destroyed, last, log>>

\* ---------------------------------------------------------------- bounds
\* number of successful dlopen calls on the one instance
MaxLoads == 2
\* file sizes are 1..MaxSize
MaxSize == 2
\* modification times are 1..MaxTime; a copy made now carries MaxTime
MaxTime == 2

\* ------------------------------------------------------------- constants
\* nullptr
NULL == 0
\* TIME_UTC of <time.h>
TIME_UTC == 1

\* ----------------------------------------------------------------- paths
\* kodi::vfs::TranslateSpecialProtocol("special://xbmcaltbinaddons/")
xbmcaltbinaddons == <<"/", "x", "/">>

PathAL == <<"/", "a", "/", "l">>
PathXL == <<"/", "x", "/", "l">>
PathM  == <<"m">>
PathXM == <<"/", "x", "/", "m">>
PathX  == <<"/", "x">>

\* the files the file system may hold
Files == {PathAL, PathXL, PathM, PathXM}
\* the paths a caller hands to LoadDll; PathX is never a file
Paths == {PathAL, PathXL, PathM, PathX}

\* the names a caller hands to RegisterSymbol
Names == {"Init", "NoSuchFn", "malloc"}

Min(a, b) == IF a < b THEN a ELSE b

\* std::string::substr(pos, n) as used by compare(0, n, str)
Substr(s, pos, n) == SubSeq(s, pos + 1, Min(pos + n, Len(s)))

\* path.compare(0, xbmcaltbinaddons.length(), xbmcaltbinaddons) != 0
OutsideAddonDir(path) ==
    Substr(path, 0, Len(xbmcaltbinaddons)) # xbmcaltbinaddons

\* path.find_last_of("/\\"): the last index holding a slash, 0 for npos + 1
LastSlash(path) ==
    LET S == {i \in 1..Len(path) : path[i] \in {"/", "\\"}}
    IN  IF S = {} THEN 0 ELSE CHOOSE i \in S : \A j \in S : j <= i

\* kodi::vfs::GetFileName(path): what follows the last slash
GetFileName(path) == SubSeq(path, LastSlash(path) + 1, Len(path))

\* std::string dstfile = xbmcaltbinaddons + kodi::vfs::GetFileName(path)
DstFile(path) == xbmcaltbinaddons \o GetFileName(path)

\* ----------------------------------------------------------- file system
Absent == [exists |-> FALSE, size |-> 0, mtime |-> 0]

FileStates ==
    {Absent} \cup
    {[exists |-> TRUE, size |-> s, mtime |-> t] : s \in 1..MaxSize, t \in 1..MaxTime}

\* a library shipped with the addon: absent, or of size 1 with any time
SourceStates == {st \in FileStates : st.exists => st.size = 1}

\* what an earlier run left in the directory; size and time are read only
\* under TARGET_ANDROID
CachedStates(isAndroid) ==
    IF isAndroid THEN FileStates
    ELSE {st \in FileStates : st.exists => (st.size = 1 /\ st.mtime = 1)}

\* kodi::vfs::StatFile(path, buffer): the buffer, exists = the return value
StatFile(f, path) == IF path \in DOMAIN f THEN f[path] ELSE Absent

\* kodi::vfs::FileExists(path)
FileExists(f, path) == StatFile(f, path).exists

\* kodi::vfs::CopyFile(path, dstfile) when it succeeds
CopyFile(f, path, dstfile) ==
    [f EXCEPT ![dstfile] =
        [exists |-> TRUE, size |-> f[path].size, mtime |-> MaxTime]]

\* --------------------------------------------------------- native loader
\* the handle the loader gives the library at a path
HandleOf(path) ==
    IF path = PathAL THEN 1
    ELSE IF path = PathXL THEN 2
    ELSE IF path = PathM THEN 3
    ELSE 4

Handles == {HandleOf(p) : p \in Files}

\* dlopen(path, RTLD_LAZY); loadable says the file is a library that loads
dlopen(f, path, loadable) ==
    IF FileExists(f, path) /\ loadable THEN HandleOf(path) ELSE NULL

\* the address of an exported name under a handle: every library exports Init
SymAddr(h, name) == IF name = "Init" THEN 10 * h + 1 ELSE NULL

\* the address of malloc in the global scope
GlobalAddr(name) == IF name = "malloc" THEN 99 ELSE NULL

\* dlsym(handle, name). A null handle is RTLD_DEFAULT on glibc and on 64-bit
\* bionic, where the global scope is searched (global = TRUE), and an invalid
\* handle elsewhere.
dlsym(h, name, global) ==
    IF h = NULL
    THEN IF global THEN GlobalAddr(name) ELSE NULL
    ELSE SymAddr(h, name)

\* CDllHelper::timespec_get(ts, base): base when base is TIME_UTC and
\* clock_gettime(CLOCK_REALTIME, ts) did not return -1 (clockOk), else 0
timespec_get(clockOk, base) == IF base = TIME_UTC /\ clockOk THEN base ELSE 0

\* ------------------------------------------------------------------- log
LogLine(level, text, dlerror) ==
    [level |-> level, text |-> text, dlerror |-> dlerror]

\* kodi::Log(ADDON_LOG_DEBUG, "Caching '%s' to '%s'", ...)
CachingLog == <<LogLine("DEBUG", "Caching", FALSE)>>

\* kodi::Log(ADDON_LOG_ERROR, "Failed to cache '%s' to '%s'", ...)
CopyFailedLog == <<LogLine("ERROR", "Failed to cache", FALSE)>>

\* variant: a failed dlopen is not logged
OpenLogSilent(h) == <<>>

\* if (m_dll == nullptr) kodi::Log(ADDON_LOG_ERROR, "Unable to load %s", dlerror())
OpenLog(h) ==
    IF h = NULL THEN <<LogLine("ERROR", "Unable to load", TRUE)>> ELSE <<>>

\* if (functionPtr == nullptr)
\*   kodi::Log(ADDON_LOG_ERROR, "Unable to assign function %s", dlerror())
RegisterLog(ptr) ==
    IF ptr = NULL THEN <<LogLine("ERROR", "Unable to assign function", TRUE)>>
    ELSE <<>>

\* --------------------------------------------------------------- LoadDll
\* doCopy: true unless both stats succeed, the sizes are equal and the value
\* timespec_get returns for the destination exceeds the one for the source
DoCopy(dstFileStat, srcFileStat, clockDst, clockSrc) ==
    ~(/\ dstFileStat.exists
      /\ srcFileStat.exists
      /\ dstFileStat.size = srcFileStat.size
      /\ timespec_get(clockDst, TIME_UTC) > timespec_get(clockSrc, TIME_UTC))

\* the path handed on to dlopen: path = dstfile unless already in the directory
PathToOpen(outside, path, dstfile) == IF outside THEN dstfile ELSE path

\* variant: the result of CopyFile is ignored
AfterCopyIgnored(copyOk) == TRUE

\* whether the load goes on to dlopen after a copy that was due
AfterCopy(copyOk) == copyOk

\* the TARGET_ANDROID block of LoadDll: whether it goes on to dlopen, with
\* which path, the file system it leaves and the lines it logs
Staging(f, path, copyOk, clockDst, clockSrc) ==
    IF ~FileExists(f, path)
    THEN [go |-> FALSE, path |-> path, fs |-> f, log |-> <<>>,
          copyTried |-> FALSE, copyFailed |-> FALSE]
    ELSE IF ~OutsideAddonDir(path)
    THEN [go |-> TRUE, path |-> PathToOpen(FALSE, path, DstFile(path)),
          fs |-> f, log |-> <<>>, copyTried |-> FALSE, copyFailed |-> FALSE]
    ELSE LET dstfile == DstFile(path)
             doCopy  == DoCopy(StatFile(f, dstfile), StatFile(f, path),
                               clockDst, clockSrc)
         IN  IF ~doCopy
             THEN [go |-> TRUE, path |-> PathToOpen(TRUE, path, dstfile),
                   fs |-> f, log |-> <<>>, copyTried |-> FALSE, copyFailed |-> FALSE]
             ELSE IF ~AfterCopy(copyOk)
             THEN [go |-> FALSE, path |-> path, fs |-> f,
                   log |-> CachingLog \o CopyFailedLog, copyTried |-> TRUE,
                   copyFailed |-> TRUE]
             ELSE [go |-> TRUE, path |-> PathToOpen(TRUE, path, dstfile),
                   fs |-> IF copyOk THEN CopyFile(f, path, dstfile) ELSE f,
                   log |-> CachingLog, copyTried |-> TRUE,
                   copyFailed |-> ~copyOk]

\* the block is compiled in only under TARGET_ANDROID
Staged(isAndroid, f, path, copyOk, clockDst, clockSrc) ==
    IF isAndroid
    THEN Staging(f, path, copyOk, clockDst, clockSrc)
    ELSE [go |-> TRUE, path |-> path, fs |-> f, log |-> <<>>,
          copyTried |-> FALSE, copyFailed |-> FALSE]

\* variant: the member is written only when dlopen gave a handle
StoreHandleKept(old, h) == IF h = NULL THEN old ELSE h

\* m_dll = dlopen(path.c_str(), RTLD_LAZY)
StoreHandle(old, h) == h

\* return of LoadDll after dlopen
LoadReturn(dll) == dll # NULL

NoCall == [op |-> "none", path |-> <<>>, name |-> "", ret |-> FALSE,
           preDll |-> NULL, preSlot |-> [assigned |-> FALSE, val |-> NULL],
           srcStat |-> Absent, dstStat |-> Absent, copyTried |-> FALSE,
           copyFailed |-> FALSE,
           openCalled |-> FALSE, openPath |-> <<>>, openResult |-> NULL,
           dlsymCalled |-> FALSE, dlsymHandle |-> NULL, dlsymResult |-> NULL]

\* the call's own record of what it did, for the properties to read
LoadCall(path, st, h, dll) ==
    [NoCall EXCEPT
        !.op = "LoadDll", !.path = path,
        !.ret = IF st.go THEN LoadReturn(dll) ELSE FALSE,
        !.preDll = m_dll, !.preSlot = functionPtr,
        !.srcStat = StatFile(fs, path),
        !.dstStat = StatFile(fs, DstFile(path)),
        !.copyTried = st.copyTried, !.copyFailed = st.copyFailed,
        !.openCalled = st.go,
        !.openPath = IF st.go THEN st.path ELSE <<>>,
        !.openResult = IF st.go THEN h ELSE NULL]

LoadDll(path, copyOk, loadable, clockDst, clockSrc) ==
    \E st \in {Staged(android, fs, path, copyOk, clockDst, clockSrc)} :
    \E h \in {IF st.go THEN dlopen(st.fs, st.path, loadable) ELSE NULL} :
    \E dll \in {IF st.go THEN StoreHandle(m_dll, h) ELSE m_dll} :
        /\ ~destroyed
        /\ Len(opened) + (IF h # NULL THEN 1 ELSE 0) <= MaxLoads
        /\ fs' = st.fs
        /\ m_dll' = dll
        /\ opened' = IF h # NULL THEN Append(opened, h) ELSE opened
        /\ log' = IF st.go THEN st.log \o OpenLog(dll) ELSE st.log
        /\ last' = LoadCall(path, st, h, dll)
        /\ UNCHANGED <<android, functionPtr, closed, destroyed>>

\* -------------------------------------------------------- RegisterSymbol
\* variant: the slot is written only when the resolution gave an address
SlotAfterKept(old, resolved) == IF resolved = NULL THEN old ELSE resolved

\* functionPtr = reinterpret_cast<T>(dlsym(m_dll, strFunctionPtr))
SlotAfter(old, resolved) == resolved

\* variant: the null test inverted
RegisterReturnInverted(ptr) == ptr = NULL

\* return of RegisterSymbol
RegisterReturn(ptr) == ptr # NULL

RegisterSymbol(name, global) ==
    \E resolved \in {dlsym(m_dll, name, global)} :
    \E ptr \in {SlotAfter(functionPtr.val, resolved)} :
        /\ ~destroyed
        /\ functionPtr' = [assigned |-> TRUE, val |-> ptr]
        /\ log' = RegisterLog(ptr)
        /\ last' = [NoCall EXCEPT
                      !.op = "RegisterSymbol", !.name = name,
                      !.ret = RegisterReturn(ptr),
                      !.preDll = m_dll, !.preSlot = functionPtr,
                      !.dlsymCalled = TRUE, !.dlsymHandle = m_dll,
                      !.dlsymResult = resolved]
        /\ UNCHANGED <<android, fs, m_dll, opened, closed, destroyed>>

\* ----------------------------------------------------------- ~CDllHelper
\* variant: dlclose without the null test
DtorClosesAlways(dll) == <<dll>>

\* if (m_dll) dlclose(m_dll);
DtorCloses(dll) == IF dll # NULL THEN <<dll>> ELSE <<>>

Destroy ==
    /\ ~destroyed
    /\ destroyed' = TRUE
    /\ closed' = closed \o DtorCloses(m_dll)
    /\ log' = <<>>
    /\ last' = [NoCall EXCEPT !.op = "Destroy", !.preDll = m_dll,
                              !.preSlot = functionPtr]
    /\ UNCHANGED <<android, fs, m_dll, functionPtr, opened>>

\* ------------------------------------------------------------------ spec
Init ==
    /\ android \in BOOLEAN
    /\ \E a \in SourceStates, x \in CachedStates(android) :
          fs = (PathAL :> a) @@ (PathXL :> x) @@ (PathXM :> Absent)
               @@ (PathM :> [exists |-> TRUE, size |-> 1, mtime |-> 1])
    /\ m_dll = NULL
    /\ functionPtr = [assigned |-> FALSE, val |-> NULL]
    /\ opened = <<>>
    /\ closed = <<>>
    /\ destroyed = FALSE
    /\ last = NoCall
    /\ log = <<>>

\* clock_gettime is reached only when both stats succeed with equal sizes
ClockInputs(path) ==
    IF /\ android
       /\ FileExists(fs, path)
       /\ OutsideAddonDir(path)
       /\ StatFile(fs, DstFile(path)).exists
       /\ StatFile(fs, DstFile(path)).size = StatFile(fs, path).size
    THEN BOOLEAN ELSE {TRUE}

\* CopyFile is reached only when the copy is due
CopyInputs(path, clockDst, clockSrc) ==
    IF Staged(android, fs, path, TRUE, clockDst, clockSrc).copyTried
    THEN BOOLEAN ELSE {TRUE}

\* what dlsym does with a null handle is read only when m_dll is null
GlobalInputs == IF m_dll = NULL THEN BOOLEAN ELSE {FALSE}

LoadDllStep ==
    \E path \in Paths, loadable \in BOOLEAN :
        \E clockDst \in ClockInputs(path), clockSrc \in ClockInputs(path) :
            \E copyOk \in CopyInputs(path, clockDst, clockSrc) :
                LoadDll(path, copyOk, loadable, clockDst, clockSrc)

RegisterSymbolStep ==
    \E name \in Names, global \in GlobalInputs : RegisterSymbol(name, global)

Next == LoadDllStep \/ RegisterSymbolStep \/ Destroy

Spec == Init /\ [][Next]_vars

TypeOK ==
    /\ android \in BOOLEAN
    /\ m_dll \in Handles \cup {NULL}
    /\ destroyed \in BOOLEAN
    /\ Len(opened) <= MaxLoads
    /\ Len(closed) <= 1

\* ------------------------------------------------------------ properties
IsLoad == last.op = "LoadDll"
IsRegister == last.op = "RegisterSymbol"

\* how often a handle was passed to dlclose
TimesClosed(h) == Cardinality({i \in 1..Len(closed) : closed[i] = h})

\* the last call failed: LoadDll did not obtain a handle, dlsym gave null
LoadFailed == IsLoad /\ (~last.openCalled \/ last.openResult = NULL)
RegisterFailed == IsRegister /\ last.dlsymResult = NULL

\* an error line carrying dlerror() is among the lines of the last call
HasLoaderErrorLine ==
    \E i \in 1..Len(log) : log[i].level = "ERROR" /\ log[i].dlerror

\* C1: no handle is closed before destruction, and after destruction every
\* handle dlopen returned has been passed to dlclose exactly once.
C1_ReleasedExactlyOnce ==
    /\ ~destroyed => closed = <<>>
    /\ destroyed => \A i \in 1..Len(opened) : TimesClosed(opened[i]) = 1

\* C2: once m_dll is non-null, no later call changes it.
C2_HandleNeverSwapped == [][m_dll # NULL => m_dll' = m_dll]_vars

\* C3: RegisterSymbol with no successful LoadDll before it returns false and
\* does not hand a null handle to dlsym.
C3_UnloadedRegisterFails ==
    (IsRegister /\ opened = <<>>) =>
        /\ ~last.ret
        /\ ~(last.dlsymCalled /\ last.dlsymHandle = NULL)

\* C4 as stated: a RegisterSymbol call that returns false leaves the slot as
\* it was before the call.
C4_FailureKeepsSlot == (IsRegister /\ ~last.ret) => functionPtr = last.preSlot

\* C4 amended: RegisterSymbol always writes what dlsym returned into the
\* slot, so a call that returns false leaves the slot null whatever it held,
\* and the call returns true exactly when the slot is left non-null.
C4_SlotIsResolution ==
    IsRegister =>
        /\ functionPtr = [assigned |-> TRUE, val |-> last.dlsymResult]
        /\ last.ret <=> functionPtr.val # NULL
        /\ ~last.ret => functionPtr.val = NULL

\* a failing call on a slot that an earlier call had bound
C4_Witness ==
    /\ IsRegister /\ ~last.ret
    /\ last.preSlot.assigned /\ last.preSlot.val # NULL
    /\ functionPtr.val = NULL

\* C5: under TARGET_ANDROID, for an existing source outside the directory,
\* the copy is made unless the destination exists with the source's size and
\* a modification time not earlier than the source's.
C5_StagingDecision ==
    (IsLoad /\ android /\ last.srcStat.exists /\ OutsideAddonDir(last.path)) =>
        (last.copyTried <=>
            ~(/\ last.dstStat.exists
              /\ last.dstStat.size = last.srcStat.size
              /\ last.dstStat.mtime >= last.srcStat.mtime))

\* C6: the destructor passes the stored handle to dlclose once when it is
\* non-null, and calls dlclose not at all when it is null.
C6_DestructorCloses ==
    /\ ~destroyed => closed = <<>>
    /\ destroyed =>
          closed = (IF last.preDll # NULL THEN <<last.preDll>> ELSE <<>>)
    /\ destroyed => last.op = "Destroy" /\ last.preDll = m_dll

\* a loaded instance destroyed
C6_Witness == destroyed /\ m_dll # NULL /\ closed = <<m_dll>>

\* C7 as stated: LoadDll on a path that does not exist returns false and
\* leaves m_dll null.
C7_MissingPathUnloaded ==
    (IsLoad /\ ~last.srcStat.exists) => (~last.ret /\ m_dll = NULL)

\* C7 amended: LoadDll on a path that does not exist returns false and
\* obtains no handle; m_dll is null afterwards, except under TARGET_ANDROID,
\* where the call returns before dlopen and m_dll is what it was before.
C7_MissingPathNoNewHandle ==
    (IsLoad /\ ~last.srcStat.exists) =>
        /\ ~last.ret
        /\ last.openResult = NULL
        /\ m_dll = (IF android THEN last.preDll ELSE NULL)
        /\ android => ~last.openCalled

\* a missing path given to an instance that holds a handle, TARGET_ANDROID
C7_Witness ==
    /\ IsLoad /\ ~last.srcStat.exists /\ android
    /\ last.preDll # NULL /\ m_dll = last.preDll

\* C8 as stated: every failing LoadDll and RegisterSymbol returns false and
\* logs an error line carrying dlerror().
C8_FailureLogsLoaderError ==
    (LoadFailed \/ RegisterFailed) => (~last.ret /\ HasLoaderErrorLine)

\* C8 amended: every failing LoadDll and RegisterSymbol returns false; a
\* failed dlopen and a failed RegisterSymbol log an error line carrying
\* dlerror(), a failed staging copy logs an error line without it, and a
\* missing file under TARGET_ANDROID logs nothing.
C8_FailureReported ==
    (LoadFailed \/ RegisterFailed) =>
        /\ ~last.ret
        /\ IsRegister =>
              log = <<LogLine("ERROR", "Unable to assign function", TRUE)>>
        /\ (IsLoad /\ last.openCalled) =>
              /\ Len(log) >= 1
              /\ log[Len(log)] = LogLine("ERROR", "Unable to load", TRUE)
        /\ (IsLoad /\ last.copyFailed) =>
              /\ Len(log) >= 1
              /\ log[Len(log)] = LogLine("ERROR", "Failed to cache", FALSE)
              /\ ~HasLoaderErrorLine
        /\ (IsLoad /\ ~last.openCalled /\ ~last.copyFailed) => log = <<>>

\* a staging copy that failed
C8_Witness == LoadFailed /\ last.copyFailed /\ ~last.ret /\ ~HasLoaderErrorLine

\* the handle of the most recent successful dlopen
LoadedHandle == opened[Len(opened)]

\* the last call resolved an exported name while that library was loaded
BoundExported ==
    /\ IsRegister
    /\ opened # <<>>
    /\ last.preDll = LoadedHandle
    /\ SymAddr(LoadedHandle, last.name) # NULL

\* C9: after a successful LoadDll, RegisterSymbol of an exported name
\* returns true and leaves the slot at the non-null address the loader has
\* for the name under the loaded handle; a repeated call gives the same
\* address.
C9_BindsExportedSymbol ==
    /\ [](BoundExported =>
            /\ last.ret
            /\ functionPtr.val # NULL
            /\ functionPtr.val = SymAddr(LoadedHandle, last.name))
    /\ [][(BoundExported /\ BoundExported' /\ last'.name = last.name
           /\ opened' = opened)
            => (last'.ret /\ functionPtr'.val = functionPtr.val)]_vars

\* an exported name bound twice in a row
C9_Witness ==
    /\ BoundExported /\ last.ret
    /\ last.preSlot.val = functionPtr.val
    /\ functionPtr.val # NULL

\* C10: under TARGET_ANDROID a failed staging copy ends LoadDll with false,
\* without dlopen and with m_dll untouched; a path inside the directory is
\* opened as given, without a copy; any other existing path is opened as
\* directory + file name once the copy succeeded or was skipped.
C10_StagingOutcome ==
    (IsLoad /\ android) =>
        /\ last.copyFailed =>
              (~last.ret /\ ~last.openCalled /\ m_dll = last.preDll)
        /\ (last.srcStat.exists /\ ~OutsideAddonDir(last.path)) =>
              (~last.copyTried /\ last.openCalled /\ last.openPath = last.path)
        /\ (last.srcStat.exists /\ OutsideAddonDir(last.path)
            /\ ~last.copyFailed) =>
              /\ last.openCalled
              /\ last.openPath = xbmcaltbinaddons \o GetFileName(last.path)

\* a failed copy on an instance that holds a handle
C10_Witness ==
    /\ IsLoad /\ android /\ last.copyFailed
    /\ last.preDll # NULL /\ m_dll = last.preDll

====
